---- MODULE Spec2Model ----
(***************************************************************************)
(* Model of zinbot's MediaWiki API layer: src/api.py (module functions)    *)
(* and src/utils.py (class Bot), which duplicate each other.  One call     *)
(* (get, post, get_token, get_page) runs at a time; the remote API answers *)
(* every transmitted request with a status and a body of its choosing.     *)
(***************************************************************************)
EXTENDS Naturals, Sequences, FiniteSets, TLC

VARIABLES
    pc,         \* "idle" | "token_sent" | "main_sent": where the current call stands
    call,       \* the call in progress, or the last one made
    trace,      \* what the current call sent and received so far, in order
    result,     \* how the last finished call ended: a returned value or an exception
    jsonSink,   \* content of logs/APIError.json
    txtSink,    \* content of logs/APIError.txt
    earlier,    \* history: the token most recently fetched by an earlier call
    ncalls      \* number of calls started

vars == <<pc, call, trace, result, jsonSink, txtSink, earlier, ncalls>>

\* Number of calls one behaviour makes.
MaxCalls == 2

(***************************************************************************)
(* Python values.  A value is a record [t, v]: decoded JSON ("obj", "arr", *)
(* "str", "null"), raw bytes (response.content) or None.                   *)
(***************************************************************************)
Obj(f) == [t |-> "obj", v |-> f]
Arr(s) == [t |-> "arr", v |-> s]
Str(s) == [t |-> "str", v |-> s]
Bytes(b) == [t |-> "bytes", v |-> b]
Null == [t |-> "null", v |-> <<>>]
None == [t |-> "None", v |-> <<>>]
EmptyDict == <<>>

\* The anonymous token MediaWiki hands out: a plus sign and one backslash.
AnonToken == "+\\"
\* The literal get_token compares with, R"+\\": a plus sign and two backslashes.
EmptyTokenLiteral == "+\\\\"

Modules == {"api", "utils"}
TokenTypes == {"csrf", "patrol"}
Statuses == {200, 400, 503}

\* Response bodies the remote end may send (raw text).
Bodies == {
    "",
    "not valid json{",
    "null",
    "[\"error\", []]",
    "{}",
    "{\"error\": {\"code\": \"badtoken\"}}",
    "{\"query\": {\"tokens\": {}}}",
    "{\"query\": []}",
    "{\"query\": {\"tokens\": {\"csrftoken\": \"+\\\\\"}}}",
    "{\"query\": {\"tokens\": {\"csrftoken\": \"+\\\\\\\\\"}}}",
    "{\"query\": {\"tokens\": {\"csrftoken\": \"c1+\\\\\", \"patroltoken\": \"p1+\\\\\"}}}",
    "{\"query\": {\"tokens\": {\"csrftoken\": \"c2+\\\\\"}}}"
}

Tokens(f) == Obj([query |-> Obj([tokens |-> Obj(f)])])

\* response.json(): the decoded body, or JSONDecodeError.
response_json(body) ==
    CASE body = "null" -> [ok |-> TRUE, data |-> Null]
      [] body = "[\"error\", []]" ->
            [ok |-> TRUE, data |-> Arr(<<Str("error"), Arr(<<>>)>>)]
      [] body = "{}" -> [ok |-> TRUE, data |-> Obj(EmptyDict)]
      [] body = "{\"error\": {\"code\": \"badtoken\"}}" ->
            [ok |-> TRUE, data |-> Obj([error |-> Obj([code |-> Str("badtoken")])])]
      [] body = "{\"query\": {\"tokens\": {}}}" ->
            [ok |-> TRUE, data |-> Tokens(EmptyDict)]
      [] body = "{\"query\": []}" ->
            [ok |-> TRUE, data |-> Obj([query |-> Arr(<<>>)])]
      [] body = "{\"query\": {\"tokens\": {\"csrftoken\": \"+\\\\\"}}}" ->
            [ok |-> TRUE, data |-> Tokens([csrftoken |-> Str(AnonToken)])]
      [] body = "{\"query\": {\"tokens\": {\"csrftoken\": \"+\\\\\\\\\"}}}" ->
            [ok |-> TRUE, data |-> Tokens([csrftoken |-> Str(EmptyTokenLiteral)])]
      [] body = "{\"query\": {\"tokens\": {\"csrftoken\": \"c1+\\\\\", \"patroltoken\": \"p1+\\\\\"}}}" ->
            [ok |-> TRUE, data |-> Tokens([csrftoken |-> Str("c1+\\"),
                                           patroltoken |-> Str("p1+\\")])]
      [] body = "{\"query\": {\"tokens\": {\"csrftoken\": \"c2+\\\\\"}}}" ->
            [ok |-> TRUE, data |-> Tokens([csrftoken |-> Str("c2+\\")])]
      [] OTHER -> [ok |-> FALSE, data |-> None]

\* bool(response): requests' Response.ok, false for a 4xx or 5xx status.
response_ok(status) == ~(400 <= status /\ status < 600)

\* bool(event): None, b"", {} and [] are falsy.
Truthy(e) ==
    CASE e.t = "None" -> FALSE
      [] e.t = "null" -> FALSE
      [] e.t = "bytes" -> e.v # ""
      [] e.t = "str" -> e.v # ""
      [] e.t = "obj" -> DOMAIN e.v # {}
      [] e.t = "arr" -> Len(e.v) > 0
      [] OTHER -> TRUE

\* Whether json.dump accepts the value: bytes raise TypeError.
Serializable(e) == e.t # "bytes"

\* 'error' in data: a key of a dict, an element of a list, TypeError on null.
contains_error(data) ==
    CASE data.t = "obj" -> [exc |-> "none", val |-> "error" \in DOMAIN data.v]
      [] data.t = "arr" ->
            [exc |-> "none",
             val |-> \E i \in 1..Len(data.v) :
                        data.v[i].t = "str" /\ data.v[i].v = "error"]
      [] OTHER -> [exc |-> "TypeError", val |-> FALSE]

\* d[key] for a str key: KeyError on a dict without it, TypeError off a dict.
getitem(d, key) ==
    IF d.t # "obj" THEN [exc |-> "TypeError", val |-> None]
    ELSE IF key \notin DOMAIN d.v THEN [exc |-> "KeyError", val |-> None]
    ELSE [exc |-> "none", val |-> d.v[key]]

\* {**d1, **d2}: d2's entries override d1's.
Merge(d1, d2) ==
    [k \in DOMAIN d1 \cup DOMAIN d2 |-> IF k \in DOMAIN d2 THEN d2[k] ELSE d1[k]]

(***************************************************************************)
(* Files of logs/.                                                         *)
(***************************************************************************)
Absent == [t |-> "absent", v |-> <<>>]
\* open(path, 'w') with nothing written after it.
Truncated == [t |-> "text", v |-> ""]
\* json.dump(event, f): the JSON text of event.
JsonFile(e) == [t |-> "json", v |-> e]
\* f.write(str(event)): for bytes, Python's b'...' form.
TxtFile(e) == [t |-> "text", v |-> "b'" \o e.v \o "'"]

\* What can go wrong with logs/: nothing, or open() of one file raises OSError.
FsModes == {"ok", "json_unwritable", "txt_unwritable"}

\* APIError(msg, event): the exception that leaves the constructor, and the
\* two files after it.
APIError_init(event, fs, js, ts) ==
    IF ~Truthy(event)
    THEN [exc |-> "APIError", json |-> js, txt |-> ts]
    ELSE IF fs = "json_unwritable"
    THEN [exc |-> "OSError", json |-> js, txt |-> ts]
    ELSE IF Serializable(event)
    THEN [exc |-> "APIError", json |-> JsonFile(event), txt |-> ts]
    ELSE IF fs = "txt_unwritable"
    THEN [exc |-> "OSError", json |-> Truncated, txt |-> ts]
    ELSE [exc |-> "APIError", json |-> Truncated, txt |-> TxtFile(event)]

Raise(exc, msg, event, js, ts) ==
    [kind |-> "raise", exc |-> exc, msg |-> msg, val |-> event,
     json |-> js, txt |-> ts]

RaiseAPIError(msg, event, fs, js, ts) ==
    LET r == APIError_init(event, fs, js, ts)
    IN Raise(r.exc, msg, event, r.json, r.txt)

Return(val, js, ts) ==
    [kind |-> "return", exc |-> "none", msg |-> "", val |-> val,
     json |-> js, txt |-> ts]

\* The payload passed with the APIError for an 'error' field: the decoded
\* JSON in api._request, response.content in utils.Bot._api.
ErrorFieldEvent(mod, body, data) ==
    IF mod = "api" THEN data ELSE Bytes(body)

\* api._request / utils.Bot._api from the response on.
_request(mod, status, body, fs, js, ts) ==
    IF ~response_ok(status)
    THEN RaiseAPIError("status_code", Bytes(body), fs, js, ts)
    ELSE LET d == response_json(body) IN
         IF ~d.ok
         THEN RaiseAPIError("No JSON found.", Bytes(body), fs, js, ts)
         ELSE LET c == contains_error(d.data) IN
              IF c.exc # "none"
              THEN Raise(c.exc, "", None, js, ts)
              ELSE IF c.val
              THEN RaiseAPIError("'error' field in response.",
                                 ErrorFieldEvent(mod, body, d.data), fs, js, ts)
              ELSE Return(d.data, js, ts)

\* get_token after its query came back: the token, APIError with the query
\* for a missing key, TypeError for a subscript off a dict, ZBError for the
\* empty-token literal.
get_token(query, tokentype, fs, js, ts) ==
    LET q == getitem(query, "query")
        t == IF q.exc = "none" THEN getitem(q.val, "tokens") ELSE q
        k == IF t.exc = "none" THEN getitem(t.val, tokentype \o "token") ELSE t
    IN IF k.exc = "KeyError"
       THEN RaiseAPIError("No token obtained.", query, fs, js, ts)
       ELSE IF k.exc = "TypeError"
       THEN Raise("TypeError", "", None, js, ts)
       ELSE IF k.val.t = "str" /\ k.val.v = EmptyTokenLiteral
       THEN Raise("ZBError", "Empty token.", None, js, ts)
       ELSE Return(k.val, js, ts)

\* The parameters get_token queries with.
TokenQuery(tokentype) ==
    [action |-> "query", meta |-> "tokens", type |-> tokentype]

\* Mutant of WithFormat: the default written over the caller's entry.
WithFormatForced(params) == Merge(params, [format |-> "json"])

\* params={'format': 'json', **params}
WithFormat(params) == Merge([format |-> "json"], params)

\* Mutant of PostBody: a token kept from an earlier call is sent again.
PostBodyCached(token) == [token |-> IF earlier.t = "None" THEN token ELSE earlier]

\* data={'token': get_token(tokentype)}
PostBody(token) == [token |-> token]

\* Mutant of PageMissing: the existence check made whatever must_exist says.
PageMissingAlways(must_exist, exists) == ~exists

\* must_exist and not page.exists()
PageMissing(must_exist, exists) == must_exist /\ ~exists

(***************************************************************************)
(* Inputs of the calls.                                                    *)
(***************************************************************************)
ParamChoices == <<
    EmptyDict,
    [action |-> "edit", title |-> "Sandbox"],
    [format |-> "xml"],
    [format |-> "xml", action |-> "edit"] >>
Titles == {"Sandbox", "Main Page"}
Namespaces == {0, 2}

NoData == EmptyDict
Send(verb, params, data) ==
    [ev |-> "send", verb |-> verb, params |-> params, data |-> data,
     status |-> 0, body |-> ""]
Recv(status, body) ==
    [ev |-> "recv", verb |-> "", params |-> EmptyDict, data |-> NoData,
     status |-> status, body |-> body]
Exists(title, ns, answer) ==
    [ev |-> "exists", verb |-> "", params |-> [title |-> title, ns |-> ns],
     data |-> NoData, status |-> 0, body |-> IF answer THEN "yes" ELSE "no"]

NoResult == [kind |-> "none", exc |-> "none", msg |-> "", val |-> None]
Outcome(o) == [kind |-> o.kind, exc |-> o.exc, msg |-> o.msg, val |-> o.val]
NoPage == [title |-> "", ns |-> 0, must_exist |-> FALSE]
Call(op, mod, params, tokentype, page) ==
    [op |-> op, mod |-> mod, params |-> params, tokentype |-> tokentype,
     page |-> page]

\* The token the call in progress (or just finished) fetched, None if none.
Fetched ==
    IF call.op = "post" /\ Len(trace) >= 3 THEN trace[3].data.token
    ELSE IF call.op = "get_token" /\ result.kind = "return" THEN result.val
    ELSE None

Init ==
    /\ pc = "idle"
    /\ call = Call("none", "api", EmptyDict, "csrf", NoPage)
    /\ trace = <<>>
    /\ result = NoResult
    /\ jsonSink = Absent
    /\ txtSink = Absent
    /\ earlier = None
    /\ ncalls = 0

\* A call may start: none is in progress.
CanStart == pc = "idle" /\ ncalls < MaxCalls

\* The token of the call before becomes an earlier one.
EarlierAtStart == IF Fetched.t # "None" THEN Fetched ELSE earlier

\* get(params): the GET request goes out.
get ==
    \E mod \in Modules, i \in 1..Len(ParamChoices) :
        /\ CanStart
        /\ call' = Call("get", mod, ParamChoices[i], "csrf", NoPage)
        /\ trace' = <<Send("get", WithFormat(ParamChoices[i]), NoData)>>
        /\ pc' = "main_sent"
        /\ result' = NoResult
        /\ ncalls' = ncalls + 1
        /\ earlier' = EarlierAtStart
        /\ UNCHANGED <<jsonSink, txtSink>>

\* post(params, tokentype) up to the first request: params are built, then
\* get_token sends its query.
post ==
    \E mod \in Modules, i \in 1..Len(ParamChoices), tokentype \in TokenTypes :
        /\ CanStart
        /\ call' = Call("post", mod, ParamChoices[i], tokentype, NoPage)
        /\ trace' = <<Send("get", WithFormat(TokenQuery(tokentype)), NoData)>>
        /\ pc' = "token_sent"
        /\ result' = NoResult
        /\ ncalls' = ncalls + 1
        /\ earlier' = EarlierAtStart
        /\ UNCHANGED <<jsonSink, txtSink>>

\* get_token(tokentype) called directly, up to its query.
get_token_call ==
    \E mod \in Modules, tokentype \in TokenTypes :
        /\ CanStart
        /\ call' = Call("get_token", mod, EmptyDict, tokentype, NoPage)
        /\ trace' = <<Send("get", WithFormat(TokenQuery(tokentype)), NoData)>>
        /\ pc' = "token_sent"
        /\ result' = NoResult
        /\ ncalls' = ncalls + 1
        /\ earlier' = EarlierAtStart
        /\ UNCHANGED <<jsonSink, txtSink>>

Finish(o, received) ==
    /\ pc' = "idle"
    /\ trace' = Append(trace, received)
    /\ result' = Outcome(o)
    /\ jsonSink' = o.json
    /\ txtSink' = o.txt
    /\ UNCHANGED <<call, earlier, ncalls>>

\* The answer to a token query arrives: get_token finishes, and post sends
\* its POST with the token as the body.
TokenResponse ==
    \E status \in Statuses, body \in Bodies, fs \in FsModes :
        /\ pc = "token_sent"
        /\ LET r == _request(call.mod, status, body, fs, jsonSink, txtSink)
               o == IF r.kind = "raise" THEN r
                    ELSE get_token(r.val, call.tokentype, fs, r.json, r.txt)
           IN IF o.kind = "return" /\ call.op = "post"
              THEN /\ pc' = "main_sent"
                   /\ trace' = trace \o
                        <<Recv(status, body),
                          Send("post", WithFormat(call.params), PostBody(o.val))>>
                   /\ UNCHANGED <<call, result, jsonSink, txtSink, earlier, ncalls>>
              ELSE Finish(o, Recv(status, body))

\* The answer to the call's own GET or POST arrives.
MainResponse ==
    \E status \in Statuses, body \in Bodies, fs \in FsModes :
        /\ pc = "main_sent"
        /\ Finish(_request(call.mod, status, body, fs, jsonSink, txtSink),
                  Recv(status, body))

\* The session's get/post raises (connection error, timeout): it propagates.
TransportError ==
    /\ pc \in {"token_sent", "main_sent"}
    /\ pc' = "idle"
    /\ result' = [kind |-> "raise", exc |-> "RequestException", msg |-> "",
                  val |-> None]
    /\ UNCHANGED <<call, trace, jsonSink, txtSink, earlier, ncalls>>

\* get_page(title, ns, must_exist): page.exists() is asked only if must_exist;
\* the Page, or ZBError.
get_page ==
    \E mod \in Modules, title \in Titles, ns \in Namespaces,
       must_exist \in BOOLEAN, exists \in BOOLEAN :
        /\ CanStart
        /\ call' = Call("get_page", mod, EmptyDict, "csrf",
                        [title |-> title, ns |-> ns, must_exist |-> must_exist])
        /\ trace' = IF must_exist THEN <<Exists(title, ns, exists)>> ELSE <<>>
        /\ pc' = "idle"
        /\ result' = IF PageMissing(must_exist, exists)
                     THEN [kind |-> "raise", exc |-> "ZBError",
                           msg |-> "Page does not exist", val |-> None]
                     ELSE [kind |-> "return", exc |-> "none", msg |-> "",
                           val |-> [t |-> "Page",
                                    v |-> [title |-> title, ns |-> ns]]]
        /\ ncalls' = ncalls + 1
        /\ earlier' = EarlierAtStart
        /\ UNCHANGED <<jsonSink, txtSink>>

Next ==
    \/ get
    \/ post
    \/ get_token_call
    \/ TokenResponse
    \/ MainResponse
    \/ TransportError
    \/ get_page

Spec == Init /\ [][Next]_vars

(***************************************************************************)
(* Properties.                                                             *)
(***************************************************************************)
Sends == {i \in 1..Len(trace) : trace[i].ev = "send"}
Posts == {i \in Sends : trace[i].verb = "post"}

\* The call has ended on a response (not on a transport error, not get_page).
Answered ==
    /\ pc = "idle"
    /\ call.op \in {"get", "post", "get_token"}
    /\ Len(trace) \in {2, 4}
    /\ trace[Len(trace)].ev = "recv"
LastRecv == trace[Len(trace)]

\* The string field <T>token under query.tokens of a received body, None if
\* the response is an error, not JSON, or has no such field.
GrantedToken(e, tokentype) ==
    LET d == response_json(e.body)
        has(x, k) == x.t = "obj" /\ k \in DOMAIN x.v
    IN IF /\ e.ev = "recv"
          /\ e.status < 400
          /\ d.ok
          /\ d.data.t = "obj"
          /\ "error" \notin DOMAIN d.data.v
          /\ has(d.data, "query")
          /\ has(d.data.v.query, "tokens")
          /\ has(d.data.v.query.v.tokens, tokentype \o "token")
       THEN d.data.v.query.v.tokens.v[tokentype \o "token"]
       ELSE None

IsTokenGet(e, tokentype) ==
    /\ e.ev = "send"
    /\ e.verb = "get"
    /\ e.params = [action |-> "query", meta |-> "tokens", type |-> tokentype,
                   format |-> "json"]
    /\ e.data = NoData

\* C1: every POST sent is the third event of a post call, after that call's
\* token GET for the requested type and the response granting a token, and
\* its body is the single field token holding exactly that token.
C1_PostCarriesFreshToken ==
    \A i \in Posts :
        /\ call.op = "post"
        /\ i = 3
        /\ IsTokenGet(trace[1], call.tokentype)
        /\ GrantedToken(trace[2], call.tokentype).t # "None"
        /\ trace[i].data = [token |-> GrantedToken(trace[2], call.tokentype)]

\* C1 witness: a POST is out whose token differs from the one an earlier
\* call fetched.
C1_Witness ==
    /\ pc = "main_sent"
    /\ call.op = "post"
    /\ Posts = {3}
    /\ earlier.t = "str"
    /\ trace[3].data.token # earlier

\* The format the claim expects for caller parameters P.
ExpectedFormat(P) == IF "format" \in DOMAIN P THEN P["format"] ELSE "json"

\* The request the call makes for its caller's parameters: get's GET, post's POST.
OwnRequests ==
    IF call.op = "get" THEN Sends ELSE IF call.op = "post" THEN Posts ELSE {}

CarriesCallerParams(e, P) ==
    /\ DOMAIN e.params = DOMAIN P \cup {"format"}
    /\ e.params["format"] = ExpectedFormat(P)
    /\ \A k \in DOMAIN P : e.params[k] = P[k]

\* C2 as stated: every request of get(P) and post(P), the token GET included,
\* carries format with P's value, or json if P has none; P's other entries go
\* out unchanged with the call's own request.
C2_Original ==
    call.op \in {"get", "post"} =>
        /\ \A i \in Sends :
              /\ "format" \in DOMAIN trace[i].params
              /\ trace[i].params["format"] = ExpectedFormat(call.params)
        /\ \A i \in OwnRequests : CarriesCallerParams(trace[i], call.params)

\* C2 amended: the call's own request carries P's entries and format (P's,
\* or json if P has none); the token GET that post issues carries format=json
\* and the token query's parameters, whatever P holds.
C2_FormatPerRequest ==
    call.op \in {"get", "post"} =>
        /\ \A i \in OwnRequests : CarriesCallerParams(trace[i], call.params)
        /\ \A i \in Sends \ OwnRequests : IsTokenGet(trace[i], call.tokentype)

\* C2 witness: post(P) with P supplying format=xml has sent both requests.
C2_Witness ==
    /\ call.op = "post"
    /\ "format" \in DOMAIN call.params
    /\ call.params["format"] = "xml"
    /\ Posts = {3}
    /\ trace[1].params["format"] = "json"
    /\ trace[3].params["format"] = "xml"

\* C10: get_page without must_exist asks nothing and returns the page;
\* with must_exist it asks once, raises ZBError exactly when the answer is
\* no, and returns the page otherwise.
C10_GetPage ==
    call.op = "get_page" =>
        LET page == [t |-> "Page",
                     v |-> [title |-> call.page.title, ns |-> call.page.ns]]
        IN IF ~call.page.must_exist
           THEN /\ trace = <<>>
                /\ result.kind = "return"
                /\ result.val = page
           ELSE /\ Len(trace) = 1
                /\ trace[1].ev = "exists"
                /\ trace[1].params = [title |-> call.page.title,
                                      ns |-> call.page.ns]
                /\ (result.kind = "raise") = (trace[1].body = "no")
                /\ result.kind = "raise" => result.exc = "ZBError"
                /\ result.kind # "raise" =>
                      result.kind = "return" /\ result.val = page

\* C10 witness: get_page with must_exist on a page reported missing has
\* raised ZBError.
C10_Witness ==
    /\ call.op = "get_page"
    /\ call.page.must_exist
    /\ trace[1].body = "no"
    /\ result.exc = "ZBError"

\* The messages of the APIErrors the dispatcher raises, and get_token's.
DispatcherMsgs == {"status_code", "No JSON found.", "'error' field in response."}
APIErrorMsgs == DispatcherMsgs \cup {"No token obtained."}

\* C3: a response decides the call in the fixed order error status,
\* undecodable body, object with an error key, else the decoded value
\* returned unchanged (calls whose diagnostics could be written).
C3_OutcomeOrder ==
    (Answered /\ call.op # "get_token" /\ (call.op = "post" => Len(trace) = 4)
        /\ result.exc # "OSError") =>
        LET e == LastRecv
            d == response_json(e.body)
        IN IF e.status >= 400 THEN result.exc = "APIError"
           ELSE IF ~d.ok THEN result.exc = "APIError"
           ELSE IF d.data.t = "obj" /\ "error" \in DOMAIN d.data.v
           THEN result.exc = "APIError"
           ELSE result.kind = "return" /\ result.val = d.data

\* C4: the anonymous token never comes back from get_token nor goes out in
\* a POST body, and a token query answered with it ends in ZBError.
C4_NoAnonymousToken ==
    /\ (call.op = "get_token" /\ result.kind = "return") =>
            result.val # Str(AnonToken)
    /\ \A i \in Posts : trace[i].data.token # Str(AnonToken)
    /\ (call.op \in {"post", "get_token"} /\ Len(trace) >= 2
            /\ GrantedToken(trace[2], call.tokentype) = Str(AnonToken)) =>
            (result.exc = "ZBError" /\ Posts = {})

\* The token query's answer was dispatched without error and a key on the
\* way to query.tokens.<T>token is missing.
TokenKeyMissing ==
    /\ Answered
    /\ call.op \in {"post", "get_token"}
    /\ Len(trace) = 2
    /\ LET d == response_json(trace[2].body)
           absent(x, k) == x.t = "obj" /\ k \notin DOMAIN x.v
       IN /\ trace[2].status < 400
          /\ d.ok
          /\ d.data.t = "obj"
          /\ "error" \notin DOMAIN d.data.v
          /\ \/ absent(d.data, "query")
             \/ /\ ~absent(d.data, "query")
                /\ absent(d.data.v.query, "tokens")
             \/ /\ ~absent(d.data, "query")
                /\ d.data.v.query.t = "obj"
                /\ ~absent(d.data.v.query, "tokens")
                /\ absent(d.data.v.query.v.tokens, call.tokentype \o "token")

\* C5: a token query answer without the token field ends in APIError with
\* the whole answer persisted as the diagnostic payload (the diagnostics
\* being writable).
C5_MissingTokenPersisted ==
    (TokenKeyMissing /\ result.exc # "OSError") =>
        /\ result.exc = "APIError"
        /\ result.msg = "No token obtained."
        /\ result.val = response_json(trace[2].body).data
        /\ jsonSink = JsonFile(response_json(trace[2].body).data)

\* C6: an answer with a top-level error key ends, in both modules, in an
\* APIError carrying the decoded object, which logs/APIError.json then holds
\* (the diagnostics being writable).
C6_ErrorObjectPersisted ==
    (Answered /\ result.exc # "OSError") =>
        LET d == response_json(LastRecv.body)
        IN (LastRecv.status < 400 /\ d.ok /\ d.data.t = "obj"
                /\ "error" \in DOMAIN d.data.v) =>
            /\ result.exc = "APIError"
            /\ result.val = d.data
            /\ jsonSink = JsonFile(d.data)

\* C7: when the dispatcher's APIError reaches the caller its payload is in
\* a sink: the JSON text in logs/APIError.json or the body's text in
\* logs/APIError.txt; for an error status, the raw body.
C7_PayloadPersisted ==
    (Answered /\ result.exc = "APIError" /\ result.msg \in DispatcherMsgs) =>
        /\ \/ jsonSink = JsonFile(result.val)
           \/ result.val.t = "bytes" /\ txtSink = TxtFile(result.val)
        /\ result.msg = "status_code" => txtSink = TxtFile(Bytes(LastRecv.body))

\* C8: whenever an APIError was being raised, APIError is what the caller
\* receives: a failed diagnostic write never takes its place.
C8_WriteFailureNeverMasks ==
    (Answered /\ result.msg \in APIErrorMsgs) => result.exc = "APIError"

\* A file's content: a missing file and an empty one both hold nothing.
Content(f) == IF f.t = "absent" THEN Truncated ELSE f

\* C9: a report of a serializable payload writes logs/APIError.json and
\* leaves logs/APIError.txt as it was; a report of any other payload writes
\* logs/APIError.txt and leaves the content of logs/APIError.json as it was.
C9_OneSinkPerReport ==
    [][(pc # "idle" /\ pc' = "idle" /\ result'.exc = "APIError"
            /\ result'.msg \in APIErrorMsgs /\ Truthy(result'.val)) =>
        IF Serializable(result'.val)
        THEN jsonSink' = JsonFile(result'.val) /\ txtSink' = txtSink
        ELSE /\ txtSink' = TxtFile(result'.val)
             /\ Content(jsonSink') = Content(jsonSink)]_vars

====
